---- MODULE Spec2Model ----
(***************************************************************************)
(* CyMouse receiver (src/src/main.cpp): the ESP-NOW receive callback, the  *)
(* queue between it and mouseTask, the pairing state shared by mouseTask   *)
(* and loop(), and the translation of queue items into USB HID calls.      *)
(*                                                                         *)
(* Three contexts run concurrently: OnDataRecv (one atomic step per        *)
(* frame), mouseTask and loop().  isConnected, lastPacketTime and          *)
(* peerMacAddress are plain globals, so mouseTask and loop() interleave    *)
(* at every access of them; each access is one step of the model.          *)
(* A MAC address is the tuple of its six bytes and is copied in one step.  *)
(*                                                                         *)
(* Four specifications share the actions:                                  *)
(*   Spec      callback, mouseTask and loop() interleaved, coarse time;    *)
(*   SpecQ     a burst of frames against the queue of QUEUE_LENGTH slots;  *)
(*   SpecSeq   frames with rich payloads, handled one at a time;           *)
(*   SpecClock callback, mouseTask and loop() with a fixed loop() period,  *)
(*             run until the millisecond clock has wrapped.                *)
(* Time passes only while mouseTask waits for an item and loop() is in     *)
(* delay(); the statements between two waits take no time.                 *)
(***************************************************************************)
EXTENDS Integers, Sequences, FiniteSets, TLC

\* ---------------------------------------------------------------- constants
CONNECTION_TIMEOUT == 3000
BROADCAST_INTERVAL == 1000
QUEUE_LENGTH == 20
PACKET_SIZE == 42

PACKET_TYPE_DISCOVERY == 0
PACKET_TYPE_MOUSE_DATA == 1
PACKET_TYPE_HEARTBEAT == 2

ZeroMac == <<0, 0, 0, 0, 0, 0>>
broadcastAddress == <<255, 255, 255, 255, 255, 255>>
MY_DEVICE_NAME == "CyMouseReceiver_V1"

\* ------------------------------------------------------------------- bounds
\* The millisecond clock is ClockBits wide (32 on the target).
ClockBits == 13
\* Time advances in steps of TickMs up to MaxTime.
TickMs == 2000
MaxTime == 8000
\* Frames delivered to the callback in the concurrent specification.
MaxFrames == 2
\* Frames delivered in the burst specification (more than QUEUE_LENGTH).
MaxBurst == 28
\* Clock specification: the period of one loop() iteration and the time up to
\* which it runs (past the wrap of the clock at ClockMod).
LoopPeriodMs == 500
MaxClockTime == 12000

\* Senders on the air: hardware addresses, never all-zero.
MacA == <<2, 0, 0, 0, 0, 10>>
MacB == <<2, 0, 0, 0, 0, 11>>
Senders == {MacA, MacB}

\* ------------------------------------------------------------------ helpers
ClockMod == 2 ^ ClockBits

\* millis(): the clock as the code reads it, an unsigned ClockBits-bit value.
Millis(t) == t % ClockMod

\* Unsigned subtraction a - b of two clock values.
Elapsed(a, b) == (a - b + ClockMod) % ClockMod

Bit(n, i) == (n \div (2 ^ i)) % 2

\* a & b and a ^ b on uint8_t.
BitAnd8(a, b) ==
    LET f[i \in 0..8] == IF i = 8 THEN 0
                         ELSE (Bit(a, i) * Bit(b, i)) * (2 ^ i) + f[i + 1]
    IN f[0]

BitXor8(a, b) ==
    LET f[i \in 0..8] == IF i = 8 THEN 0
                         ELSE ((Bit(a, i) + Bit(b, i)) % 2) * (2 ^ i) + f[i + 1]
    IN f[0]

\* ---------------------------------------------------------------- variables
VARIABLES
    now,              \* true elapsed time in ms since boot
    nFrames,          \* frames the radio has delivered to OnDataRecv
    queue,            \* mouseDataQueue
    isConnected,
    lastPacketTime,
    peerMacAddress,
    taskpc,           \* mouseTask: position
    receivedItem,     \* mouseTask: receivedItem
    lastButtons,      \* mouseTask: lastButtons
    peerInfo,         \* mouseTask: peerInfo.peer_addr
    looppc,           \* loop(): position
    loopTmp,          \* loop(): first operand read of millis() - lastPacketTime
    lastBroadcastTime,
    peerTable,        \* ESP-NOW peer list
    rx,               \* frame handed to OnDataRecv by this step, or NoFrame
    radioCall,        \* ESP-NOW call made by this step, or NoCall
    hidOut,           \* USB HID calls made for the item being processed
    seenAt,           \* true time of the last write of lastPacketTime
    deqDisc,          \* isConnected was false when the item in hand was received
    expect,           \* items pushed successfully and not yet received
    fifoOk,           \* every item received so far was the oldest pushed one
    sentAt,           \* true time of the last esp_now_send, -1 before the first
    pressed,          \* buttons the host holds pressed: pressed, not yet released
    alternOk,         \* no button was pressed while pressed or released while not
    deqAt,            \* true time at which the item in hand was received
    bindFresh,        \* whenever isConnected was set, lastPacketTime had been
                      \* written since the item in hand was received
    radioOk           \* add of an unlisted and del of a listed peer never failed

vars == <<now, nFrames, queue, isConnected, lastPacketTime, peerMacAddress,
          taskpc, receivedItem, lastButtons, peerInfo, looppc, loopTmp, lastBroadcastTime,
          peerTable, rx, radioCall, hidOut, seenAt, deqDisc, expect, fifoOk,
          sentAt, pressed, alternOk, deqAt, bindFresh, radioOk>>

envVars == <<now, nFrames>>
connVars == <<isConnected, lastPacketTime, peerMacAddress>>
taskVars == <<taskpc, receivedItem, lastButtons, peerInfo, hidOut>>
loopVars == <<looppc, loopTmp, lastBroadcastTime>>
ghostTime == <<seenAt, deqDisc>>
ghostFifo == <<expect, fifoOk>>
ghostSend == <<sentAt>>
ghostHid == <<pressed, alternOk>>
ghostBind == <<deqAt, bindFresh>>
ghostRadio == <<radioOk>>
ghostHist == <<ghostSend, ghostHid, ghostBind, ghostRadio>>

NoFrame == [len |-> 0]
NoCall == [op |-> "none"]
NoItem == [mac_addr |-> ZeroMac, type |-> PACKET_TYPE_DISCOVERY,
           deltaX |-> 0, deltaY |-> 0, wheel |-> 0, buttons |-> 0]

\* --------------------------------------------------------------------- Init
Init ==
    /\ now = 0
    /\ nFrames = 0
    /\ queue = <<>>
    /\ isConnected = FALSE
    /\ lastPacketTime = 0
    /\ peerMacAddress = ZeroMac
    /\ taskpc = "receive"
    /\ receivedItem = NoItem
    /\ lastButtons = 0
    /\ peerInfo = ZeroMac
    /\ looppc = "phase"
    /\ loopTmp = 0
    /\ lastBroadcastTime = 0
    /\ peerTable = {broadcastAddress}
    /\ rx = NoFrame
    /\ radioCall = NoCall
    /\ hidOut = <<>>
    /\ seenAt = 0
    /\ deqDisc = FALSE
    /\ expect = <<>>
    /\ fifoOk = TRUE
    /\ sentAt = 0 - 1
    /\ pressed = {}
    /\ alternOk = TRUE
    /\ deqAt = 0
    /\ bindFresh = TRUE
    /\ radioOk = TRUE


\* ------------------------------------------------------- ESP-NOW peer list
\* esp_now_add_peer: fails for an address already listed; may fail otherwise.
AddPeerResults(table, addr) ==
    IF addr \in table
    THEN {[status |-> "EXIST", table |-> table]}
    ELSE {[status |-> "OK", table |-> table \cup {addr}],
          [status |-> "FAIL", table |-> table]}

\* esp_now_mod_peer: needs the address to be listed.
ModPeerResults(table, addr) ==
    IF addr \in table
    THEN {[status |-> "OK", table |-> table], [status |-> "FAIL", table |-> table]}
    ELSE {[status |-> "NOT_FOUND", table |-> table]}

\* esp_now_del_peer: ESP_OK, ESP_ERR_ESPNOW_NOT_FOUND or another error.
DelPeerResults(table, addr) ==
    IF addr \in table
    THEN {[status |-> "OK", table |-> table \ {addr}],
          [status |-> "FAIL", table |-> table]}
    ELSE {[status |-> "NOT_FOUND", table |-> table]}

\* ------------------------------------------------------------ OnDataRecv
\* Mutation: the length of the frame is not tested.
FrameAcceptedAnyLength(f) ==
    f.type \in {PACKET_TYPE_MOUSE_DATA, PACKET_TYPE_HEARTBEAT}

\* The length and type test of the callback.
FrameAccepted(f) ==
    /\ f.len = PACKET_SIZE
    /\ f.type \in {PACKET_TYPE_MOUSE_DATA, PACKET_TYPE_HEARTBEAT}

\* The QueueItem_t built from an accepted frame.
ItemOf(f) ==
    [mac_addr |-> f.mac, type |-> f.type, deltaX |-> f.deltaX,
     deltaY |-> f.deltaY, wheel |-> f.wheel, buttons |-> f.buttons]

\* Mutation: a full queue overwrites its oldest item.
QueueSendOverwrite(q, item) ==
    IF Len(q) < QUEUE_LENGTH
    THEN [q |-> Append(q, item), ok |-> TRUE]
    ELSE [q |-> Append(Tail(q), item), ok |-> TRUE]

\* xQueueSendFromISR on a queue of QUEUE_LENGTH slots: never waits.
QueueSend(q, item) ==
    IF Len(q) < QUEUE_LENGTH
    THEN [q |-> Append(q, item), ok |-> TRUE]
    ELSE [q |-> q, ok |-> FALSE]

\* Mutation: the newest item is received first.
QueueReceiveNewest(q) ==
    [item |-> q[Len(q)], q |-> SubSeq(q, 1, Len(q) - 1)]

\* xQueueReceive on a non-empty queue.
QueueReceive(q) == [item |-> Head(q), q |-> Tail(q)]

OnDataRecv(f) ==
    /\ rx' = f
    /\ radioCall' = NoCall
    /\ IF FrameAccepted(f)
       THEN LET r == QueueSend(queue, ItemOf(f))
            IN /\ queue' = r.q
               /\ expect' = IF r.ok THEN Append(expect, ItemOf(f)) ELSE expect
       ELSE UNCHANGED <<queue, expect>>
    /\ UNCHANGED <<now, connVars, taskVars, loopVars, peerTable, ghostTime,
                   fifoOk, ghostHist>>

\* ------------------------------------------------------------- HID calls
\* Mutation: the wheel alone does not cause a move call.
MoveCallsNoWheel(item) ==
    IF item.deltaX # 0 \/ item.deltaY # 0
    THEN << [call |-> "move", x |-> item.deltaX, y |-> item.deltaY,
             wheel |-> item.wheel] >>
    ELSE << >>

\* if (deltaX != 0 || deltaY != 0 || wheel != 0) Mouse.move(deltaX, deltaY, wheel);
MoveCalls(item) ==
    IF item.deltaX # 0 \/ item.deltaY # 0 \/ item.wheel # 0
    THEN << [call |-> "move", x |-> item.deltaX, y |-> item.deltaY,
             wheel |-> item.wheel] >>
    ELSE << >>

\* Mutation: press or release is decided by the changed bit, so always press.
ButtonCallAlwaysPress(buttons, changed, mask, id) ==
    IF BitAnd8(changed, mask) # 0
    THEN << [call |-> IF BitAnd8(changed, mask) # 0 THEN "press" ELSE "release",
             button |-> id] >>
    ELSE << >>

\* One line of the button block: if (changed & mask) press or release.
ButtonCall(buttons, changed, mask, id) ==
    IF BitAnd8(changed, mask) # 0
    THEN << [call |-> IF BitAnd8(buttons, mask) # 0 THEN "press" ELSE "release",
             button |-> id] >>
    ELSE << >>

ButtonCalls(item, last) ==
    IF item.buttons # last
    THEN LET changed_buttons == BitXor8(item.buttons, last)
         IN ButtonCall(item.buttons, changed_buttons, 1, "MOUSE_LEFT")
            \o ButtonCall(item.buttons, changed_buttons, 2, "MOUSE_RIGHT")
            \o ButtonCall(item.buttons, changed_buttons, 4, "MOUSE_MIDDLE")
            \o ButtonCall(item.buttons, changed_buttons, 8, "MOUSE_BACKWARD")
            \o ButtonCall(item.buttons, changed_buttons, 16, "MOUSE_FORWARD")
    ELSE << >>

NextButtons(item, last) ==
    IF item.buttons # last THEN item.buttons ELSE last

\* Mutation: the item's type is not looked at.
HidCallsAnyType(item, last) ==
    MoveCalls(item) \o ButtonCalls(item, last)

\* if (receivedItem.type == PACKET_TYPE_MOUSE_DATA) { ... }: the calls made.
HidCalls(item, last) ==
    IF item.type = PACKET_TYPE_MOUSE_DATA
    THEN MoveCalls(item) \o ButtonCalls(item, last)
    ELSE << >>

NextLastButtons(item, last) ==
    IF item.type = PACKET_TYPE_MOUSE_DATA THEN NextButtons(item, last) ELSE last

\* The host's view of the calls: the buttons held after a sequence of calls,
\* starting from the set p ...
RECURSIVE HostPressed(_, _)
HostPressed(calls, p) ==
    IF calls = << >> THEN p
    ELSE LET c == Head(calls)
         IN HostPressed(Tail(calls),
                        IF c.call = "press" THEN p \cup {c.button}
                        ELSE IF c.call = "release" THEN p \ {c.button}
                        ELSE p)

\* ... and whether every press met a released button and every release a
\* pressed one.
RECURSIVE HostAlternates(_, _)
HostAlternates(calls, p) ==
    IF calls = << >> THEN TRUE
    ELSE LET c == Head(calls)
         IN /\ c.call = "press" => c.button \notin p
            /\ c.call = "release" => c.button \in p
            /\ HostAlternates(Tail(calls), HostPressed(<<c>>, p))

\* -------------------------------------------------------------- mouseTask
Quiet == rx' = NoFrame /\ radioCall' = NoCall

\* xQueueReceive(mouseDataQueue, &receivedItem, portMAX_DELAY)
TaskReceive ==
    /\ taskpc = "receive"
    /\ queue # << >>
    /\ LET r == QueueReceive(queue)
       IN /\ receivedItem' = r.item
          /\ queue' = r.q
          /\ fifoOk' = (fifoOk /\ expect # << >> /\ r.item = Head(expect))
    /\ expect' = IF expect = << >> THEN expect ELSE Tail(expect)
    /\ taskpc' = "stamp"
    /\ hidOut' = << >>
    /\ deqDisc' = ~isConnected
    /\ deqAt' = now
    /\ Quiet
    /\ UNCHANGED <<envVars, connVars, lastButtons, peerInfo, loopVars,
                   peerTable, seenAt, ghostSend, ghostHid, bindFresh,
                   ghostRadio>>

\* Mutation: only MOUSE_DATA items refresh lastPacketTime.
TaskStampMouseOnly ==
    /\ taskpc = "stamp"
    /\ lastPacketTime' = IF receivedItem.type = PACKET_TYPE_MOUSE_DATA
                         THEN Millis(now) ELSE lastPacketTime
    /\ seenAt' = IF receivedItem.type = PACKET_TYPE_MOUSE_DATA
                 THEN now ELSE seenAt
    /\ taskpc' = "check"
    /\ rx' = NoFrame /\ radioCall' = NoCall
    /\ UNCHANGED <<envVars, queue, isConnected, peerMacAddress, receivedItem,
                   lastButtons, peerInfo, hidOut, loopVars, peerTable, deqDisc,
                   ghostFifo, ghostHist>>

\* Mutation: lastPacketTime is refreshed only while connected.
TaskStampConnectedOnly ==
    /\ taskpc = "stamp"
    /\ lastPacketTime' = IF isConnected THEN Millis(now) ELSE lastPacketTime
    /\ seenAt' = IF isConnected THEN now ELSE seenAt
    /\ taskpc' = "check"
    /\ Quiet
    /\ UNCHANGED <<envVars, queue, isConnected, peerMacAddress, receivedItem,
                   lastButtons, peerInfo, hidOut, loopVars, peerTable, deqDisc,
                   ghostFifo, ghostHist>>

\* lastPacketTime = millis();
TaskStamp ==
    /\ taskpc = "stamp"
    /\ lastPacketTime' = Millis(now)
    /\ seenAt' = now
    /\ taskpc' = "check"
    /\ Quiet
    /\ UNCHANGED <<envVars, queue, isConnected, peerMacAddress, receivedItem,
                   lastButtons, peerInfo, hidOut, loopVars, peerTable, deqDisc,
                   ghostFifo, ghostHist>>

\* if (!isConnected)
TaskCheck ==
    /\ taskpc = "check"
    /\ taskpc' = IF ~isConnected THEN "save" ELSE "dispatch"
    /\ Quiet
    /\ UNCHANGED <<envVars, queue, connVars, receivedItem, lastButtons, hidOut,
                   peerInfo, loopVars, peerTable, ghostTime, ghostFifo,
                   ghostHist>>

\* memcpy(peerMacAddress, receivedItem.mac_addr, 6);
TaskSavePeer ==
    /\ taskpc = "save"
    /\ peerMacAddress' = receivedItem.mac_addr
    /\ taskpc' = "info"
    /\ Quiet
    /\ UNCHANGED <<envVars, queue, isConnected, lastPacketTime, receivedItem,
                   lastButtons, hidOut, peerInfo, loopVars, peerTable,
                   ghostTime, ghostFifo, ghostHist>>

\* memcpy(peerInfo.peer_addr, peerMacAddress, 6);
TaskPeerInfo ==
    /\ taskpc = "info"
    /\ peerInfo' = peerMacAddress
    /\ taskpc' = "add"
    /\ Quiet
    /\ UNCHANGED <<envVars, queue, connVars, receivedItem, lastButtons, hidOut,
                   loopVars, peerTable, ghostTime, ghostFifo, ghostHist>>

\* if (esp_now_add_peer(&peerInfo) != ESP_OK)
TaskAddPeer ==
    /\ taskpc = "add"
    /\ \E r \in AddPeerResults(peerTable, peerInfo) :
          /\ peerTable' = r.table
          /\ radioCall' = [op |-> "add", addr |-> peerInfo, status |-> r.status]
          /\ taskpc' = IF r.status # "OK" THEN "mod" ELSE "connect"
          /\ radioOk' = (radioOk /\ (peerInfo \in peerTable \/ r.status = "OK"))
    /\ rx' = NoFrame
    /\ UNCHANGED <<envVars, queue, connVars, receivedItem, lastButtons, hidOut,
                   peerInfo, loopVars, ghostTime, ghostFifo, ghostSend,
                   ghostHid, ghostBind>>

\* if (esp_now_mod_peer(&peerInfo) == ESP_OK)
TaskModPeer ==
    /\ taskpc = "mod"
    /\ \E r \in ModPeerResults(peerTable, peerInfo) :
          /\ peerTable' = r.table
          /\ radioCall' = [op |-> "mod", addr |-> peerInfo, status |-> r.status]
    /\ taskpc' = "connect"
    /\ rx' = NoFrame
    /\ UNCHANGED <<envVars, queue, connVars, receivedItem, lastButtons, hidOut,
                   peerInfo, loopVars, ghostTime, ghostFifo, ghostHist>>

\* Mutation: the bind starts with a fresh button mask.
TaskSetConnectedFreshMask ==
    /\ taskpc = "connect"
    /\ isConnected' = TRUE
    /\ taskpc' = "dispatch"
    /\ peerInfo' = ZeroMac
    /\ lastButtons' = 0
    /\ bindFresh' = (bindFresh /\ seenAt >= deqAt)
    /\ Quiet
    /\ UNCHANGED <<envVars, queue, lastPacketTime, peerMacAddress,
                   receivedItem, hidOut, loopVars, peerTable, ghostTime,
                   ghostFifo, ghostSend, ghostHid, deqAt, ghostRadio>>

\* isConnected = true;
TaskSetConnected ==
    /\ taskpc = "connect"
    /\ isConnected' = TRUE
    /\ taskpc' = "dispatch"
    /\ peerInfo' = ZeroMac          \* peerInfo leaves scope
    /\ bindFresh' = (bindFresh /\ seenAt >= deqAt)
    /\ Quiet
    /\ UNCHANGED <<envVars, queue, lastPacketTime, peerMacAddress,
                   receivedItem, lastButtons, hidOut, loopVars, peerTable,
                   ghostTime, ghostFifo, ghostSend, ghostHid, deqAt,
                   ghostRadio>>

\* if (receivedItem.type == PACKET_TYPE_MOUSE_DATA) { move; press/release }
TaskDispatch ==
    /\ taskpc = "dispatch"
    /\ hidOut' = HidCalls(receivedItem, lastButtons)
    /\ lastButtons' = NextLastButtons(receivedItem, lastButtons)
    /\ taskpc' = "receive"
    /\ deqDisc' = FALSE
    /\ pressed' = HostPressed(hidOut', pressed)
    /\ alternOk' = (alternOk /\ HostAlternates(hidOut', pressed))
    /\ Quiet
    /\ UNCHANGED <<envVars, queue, connVars, receivedItem, peerInfo, loopVars,
                   peerTable, seenAt, ghostFifo, ghostSend, ghostBind,
                   ghostRadio>>


\* ------------------------------------------------------------------ loop()
\* The Discovery packet of loop(): zero-initialized, type and name set.
DiscoveryPacket ==
    [type |-> PACKET_TYPE_DISCOVERY, deviceName |-> MY_DEVICE_NAME,
     deltaX |-> 0, deltaY |-> 0, wheel |-> 0, buttons |-> 0]

\* if (!isConnected)
LoopPhase ==
    /\ looppc = "phase"
    /\ looppc' = IF ~isConnected THEN "beacon" ELSE "timeout"
    /\ Quiet
    /\ UNCHANGED <<envVars, queue, connVars, taskVars, loopTmp,
                   lastBroadcastTime, peerTable, ghostTime, ghostFifo,
                   ghostHist>>

\* if (millis() - lastBroadcastTime >= 1000)
LoopBeacon ==
    /\ looppc = "beacon"
    /\ looppc' = IF Elapsed(Millis(now), lastBroadcastTime) >= BROADCAST_INTERVAL
                 THEN "mark" ELSE "delay"
    /\ Quiet
    /\ UNCHANGED <<envVars, queue, connVars, taskVars, loopTmp,
                   lastBroadcastTime, peerTable, ghostTime, ghostFifo,
                   ghostHist>>

\* lastBroadcastTime = millis();
LoopMark ==
    /\ looppc = "mark"
    /\ lastBroadcastTime' = Millis(now)
    /\ looppc' = "send"
    /\ Quiet
    /\ UNCHANGED <<envVars, queue, connVars, taskVars, loopTmp, peerTable,
                   ghostTime, ghostFifo, ghostHist>>

\* esp_now_send(broadcastAddress, &discoveryPacket, sizeof(discoveryPacket));
LoopSend ==
    /\ looppc = "send"
    /\ radioCall' = [op |-> "send", addr |-> broadcastAddress,
                     packet |-> DiscoveryPacket, len |-> PACKET_SIZE]
    /\ looppc' = "delay"
    /\ rx' = NoFrame
    /\ sentAt' = now
    /\ UNCHANGED <<envVars, queue, connVars, taskVars, loopTmp,
                   lastBroadcastTime, peerTable, ghostTime, ghostFifo,
                   ghostHid, ghostBind, ghostRadio>>

\* millis() - lastPacketTime > CONNECTION_TIMEOUT: the two operands are read in
\* either order.  Here millis() is read first ...
LoopReadClock ==
    /\ looppc = "timeout"
    /\ loopTmp' = Millis(now)
    /\ looppc' = "cmp_last"
    /\ Quiet
    /\ UNCHANGED <<envVars, queue, connVars, taskVars, lastBroadcastTime,
                   peerTable, ghostTime, ghostFifo, ghostHist>>

\* ... then lastPacketTime, and the comparison is made.
LoopCompareLast ==
    /\ looppc = "cmp_last"
    /\ looppc' = IF Elapsed(loopTmp, lastPacketTime) > CONNECTION_TIMEOUT
                 THEN "del" ELSE "delay"
    /\ loopTmp' = 0
    /\ Quiet
    /\ UNCHANGED <<envVars, queue, connVars, taskVars, lastBroadcastTime,
                   peerTable, ghostTime, ghostFifo, ghostHist>>

\* Here lastPacketTime is read first ...
LoopReadLast ==
    /\ looppc = "timeout"
    /\ loopTmp' = lastPacketTime
    /\ looppc' = "cmp_clock"
    /\ Quiet
    /\ UNCHANGED <<envVars, queue, connVars, taskVars, lastBroadcastTime,
                   peerTable, ghostTime, ghostFifo, ghostHist>>

\* ... then millis(), and the comparison is made.
LoopCompareClock ==
    /\ looppc = "cmp_clock"
    /\ looppc' = IF Elapsed(Millis(now), loopTmp) > CONNECTION_TIMEOUT
                 THEN "del" ELSE "delay"
    /\ loopTmp' = 0
    /\ Quiet
    /\ UNCHANGED <<envVars, queue, connVars, taskVars, lastBroadcastTime,
                   peerTable, ghostTime, ghostFifo, ghostHist>>

\* resetConnection(): esp_err_t result = esp_now_del_peer(peerMacAddress);
ResetDelPeer ==
    /\ looppc = "del"
    /\ \E r \in DelPeerResults(peerTable, peerMacAddress) :
          /\ peerTable' = r.table
          /\ radioCall' = [op |-> "del", addr |-> peerMacAddress,
                           status |-> r.status]
          /\ radioOk' = (radioOk /\ (peerMacAddress \notin peerTable
                                      \/ r.status = "OK"))
    /\ looppc' = "clear_conn"
    /\ rx' = NoFrame
    /\ UNCHANGED <<envVars, queue, connVars, taskVars, loopTmp,
                   lastBroadcastTime, ghostTime, ghostFifo, ghostSend,
                   ghostHid, ghostBind>>

\* resetConnection(): isConnected = false;
ResetClearConnected ==
    /\ looppc = "clear_conn"
    /\ isConnected' = FALSE
    /\ looppc' = "clear_mac"
    /\ Quiet
    /\ UNCHANGED <<envVars, queue, lastPacketTime, peerMacAddress, taskVars,
                   loopTmp, lastBroadcastTime, peerTable, ghostTime, ghostFifo,
                   ghostHist>>

\* Mutation: the reset clears lastPacketTime along with peerMacAddress.
ResetClearPeerAndTime ==
    /\ looppc = "clear_mac"
    /\ peerMacAddress' = ZeroMac
    /\ lastPacketTime' = 0
    /\ looppc' = "delay"
    /\ Quiet
    /\ UNCHANGED <<envVars, queue, isConnected, taskVars, loopTmp,
                   lastBroadcastTime, peerTable, ghostTime, ghostFifo,
                   ghostHist>>

\* resetConnection(): memset(peerMacAddress, 0, 6);
ResetClearPeer ==
    /\ looppc = "clear_mac"
    /\ peerMacAddress' = ZeroMac
    /\ looppc' = "delay"
    /\ Quiet
    /\ UNCHANGED <<envVars, queue, isConnected, lastPacketTime, taskVars,
                   loopTmp, lastBroadcastTime, peerTable, ghostTime, ghostFifo,
                   ghostHist>>

\* delay(100); and loop() is called again
LoopDelay ==
    /\ looppc = "delay"
    /\ looppc' = "phase"
    /\ Quiet
    /\ UNCHANGED <<envVars, queue, connVars, taskVars, loopTmp,
                   lastBroadcastTime, peerTable, ghostTime, ghostFifo,
                   ghostHist>>

\* ------------------------------------------------------------- environment
\* Time passes while both tasks wait: mouseTask in xQueueReceive on an empty
\* queue, loop() in delay(100).  The statements between two waits take no time.
Tick ==
    /\ taskpc = "receive" /\ queue = << >>
    /\ looppc = "delay"
    /\ now + TickMs <= MaxTime
    /\ now' = now + TickMs
    /\ Quiet
    /\ UNCHANGED <<nFrames, queue, connVars, taskVars, loopVars, peerTable,
                   ghostTime, ghostFifo, ghostHist>>

\* Frames of the concurrent specification: both kinds from two senders, and
\* a MOUSE_DATA frame that changes the buttons from left to right.
Frames ==
    {[mac |-> m, len |-> PACKET_SIZE, type |-> PACKET_TYPE_MOUSE_DATA,
      deltaX |-> 3, deltaY |-> 0, wheel |-> 0, buttons |-> 1] : m \in Senders}
    \cup
    {[mac |-> MacA, len |-> PACKET_SIZE, type |-> PACKET_TYPE_MOUSE_DATA,
      deltaX |-> 0, deltaY |-> 0, wheel |-> 0, buttons |-> 2]}
    \cup
    {[mac |-> m, len |-> PACKET_SIZE, type |-> PACKET_TYPE_HEARTBEAT,
      deltaX |-> 0, deltaY |-> 0, wheel |-> 0, buttons |-> 0] : m \in Senders}

\* The radio delivers a frame.
Recv ==
    /\ nFrames < MaxFrames
    /\ nFrames' = nFrames + 1
    /\ \E f \in Frames : OnDataRecv(f)

\* ------------------------------------------------------------ specification
Next ==
    \/ Recv
    \/ Tick
    \/ TaskReceive
    \/ TaskStamp
    \/ TaskCheck
    \/ TaskSavePeer
    \/ TaskPeerInfo
    \/ TaskAddPeer
    \/ TaskModPeer
    \/ TaskSetConnected
    \/ TaskDispatch
    \/ LoopPhase
    \/ LoopBeacon
    \/ LoopMark
    \/ LoopSend
    \/ LoopReadClock
    \/ LoopCompareLast
    \/ LoopReadLast
    \/ LoopCompareClock
    \/ ResetDelPeer
    \/ ResetClearConnected
    \/ ResetClearPeer
    \/ LoopDelay

Spec == Init /\ [][Next]_vars

\* A burst: the n-th frame carries n, so every frame is distinct.  Most
\* frames are well-formed; some are one byte too long, some are Discovery frames
\* and some carry a type out of range.
BurstFrame(n) ==
    [mac |-> IF n % 3 = 0 THEN MacB ELSE MacA,
     len |-> IF n % 8 = 5 THEN PACKET_SIZE + 1 ELSE PACKET_SIZE,
     type |-> IF n % 16 = 7 THEN PACKET_TYPE_DISCOVERY
              ELSE IF n % 16 = 15 THEN 3
              ELSE IF n % 2 = 0 THEN PACKET_TYPE_HEARTBEAT
              ELSE PACKET_TYPE_MOUSE_DATA,
     deltaX |-> n, deltaY |-> 0 - n, wheel |-> 0, buttons |-> n % 4]

\* The radio delivers the next frame of the burst.
BurstRecv ==
    /\ nFrames < MaxBurst
    /\ nFrames' = nFrames + 1
    /\ OnDataRecv(BurstFrame(nFrames + 1))

\* The callback and mouseTask alone: a burst of MaxBurst frames against the
\* queue of QUEUE_LENGTH slots, no time passing.
NextQ ==
    \/ BurstRecv
    \/ TaskReceive
    \/ TaskStamp
    \/ TaskCheck
    \/ TaskSavePeer
    \/ TaskPeerInfo
    \/ TaskAddPeer
    \/ TaskModPeer
    \/ TaskSetConnected
    \/ TaskDispatch

SpecQ == Init /\ [][NextQ]_vars

\* Frames fed one at a time: every 5-bit button value and some with the
\* unused high bits set, movements inside and outside the int8_t range, and
\* Heartbeats with and without payload.
ButtonVals == (0..31) \cup {32, 224, 255}

Movements ==
    {<<0, 0, 0>>, <<5, 0, 0>>, <<0, 0 - 7, 0>>, <<0, 0, 1>>, <<0 - 300, 200, 0 - 1>>}

SeqFrames ==
    {[mac |-> MacA, len |-> PACKET_SIZE, type |-> PACKET_TYPE_MOUSE_DATA,
      deltaX |-> m[1], deltaY |-> m[2], wheel |-> m[3], buttons |-> b] :
        m \in {<<0, 0, 0>>}, b \in ButtonVals}
    \cup
    {[mac |-> MacA, len |-> PACKET_SIZE, type |-> PACKET_TYPE_MOUSE_DATA,
      deltaX |-> m[1], deltaY |-> m[2], wheel |-> m[3], buttons |-> b] :
        m \in Movements, b \in {0, 1, 3}}
    \cup
    {[mac |-> MacA, len |-> PACKET_SIZE, type |-> PACKET_TYPE_HEARTBEAT,
      deltaX |-> m[1], deltaY |-> m[2], wheel |-> m[3], buttons |-> b] :
        m \in {<<0, 0, 0>>, <<5, 0, 0>>}, b \in {0, 3}}

\* The radio delivers a frame while mouseTask waits on the empty queue.
SeqRecv ==
    /\ taskpc = "receive" /\ queue = << >>
    /\ UNCHANGED nFrames
    /\ \E f \in SeqFrames : OnDataRecv(f)

NextSeq ==
    \/ SeqRecv
    \/ TaskReceive
    \/ TaskStamp
    \/ TaskCheck
    \/ TaskSavePeer
    \/ TaskPeerInfo
    \/ TaskAddPeer
    \/ TaskModPeer
    \/ TaskSetConnected
    \/ TaskDispatch

SpecSeq == Init /\ [][NextSeq]_vars


\* The clock specification: the callback, mouseTask and loop() with a loop()
\* period of LoopPeriodMs, run until the millisecond clock has wrapped.  The
\* sender's frames are Heartbeats with zero payload, handed over one at a time.
ClockFrame ==
    [mac |-> MacA, len |-> PACKET_SIZE, type |-> PACKET_TYPE_HEARTBEAT,
     deltaX |-> 0, deltaY |-> 0, wheel |-> 0, buttons |-> 0]

\* The radio delivers a Heartbeat while mouseTask waits on the empty queue.
ClockRecv ==
    /\ taskpc = "receive" /\ queue = << >>
    /\ UNCHANGED nFrames
    /\ OnDataRecv(ClockFrame)

\* delay(100); and loop() is called again: the time of one loop() period
\* passes in the delay, mouseTask handles its items in no time.
LoopDelayPeriod ==
    /\ looppc = "delay"
    /\ taskpc = "receive" /\ queue = << >>
    /\ now + LoopPeriodMs <= MaxClockTime
    /\ now' = now + LoopPeriodMs
    /\ looppc' = "phase"
    /\ Quiet
    /\ UNCHANGED <<nFrames, queue, connVars, taskVars, loopTmp,
                   lastBroadcastTime, peerTable, ghostTime, ghostFifo,
                   ghostHist>>

NextClock ==
    \/ ClockRecv
    \/ TaskReceive
    \/ TaskStamp
    \/ TaskCheck
    \/ TaskSavePeer
    \/ TaskPeerInfo
    \/ TaskAddPeer
    \/ TaskModPeer
    \/ TaskSetConnected
    \/ TaskDispatch
    \/ LoopPhase
    \/ LoopBeacon
    \/ LoopMark
    \/ LoopSend
    \/ LoopReadClock
    \/ LoopCompareLast
    \/ LoopReadLast
    \/ LoopCompareClock
    \/ ResetDelPeer
    \/ ResetClearConnected
    \/ ResetClearPeer
    \/ LoopDelayPeriod

SpecClock == Init /\ [][NextClock]_vars


\* ------------------------------------------------------------------ claims
\* mouseTask is blocked in xQueueReceive on an empty queue and loop() is at
\* the top of an iteration: no bind and no reset is in progress.
AtRest == taskpc = "receive" /\ queue = << >> /\ looppc = "phase"

\* C1: in every reachable state peerMacAddress is all-zero if and only if
\* isConnected is false.
C1_PeerZeroIffDisconnected ==
    (peerMacAddress = ZeroMac) <=> ~isConnected

\* C1: a state at rest in which isConnected is true and peerMacAddress is
\* all-zero (a bind overtaken by the memset of a reset in progress).
C1_ConnectedZeroPeerAtRest ==
    AtRest /\ isConnected /\ peerMacAddress = ZeroMac

\* C2: when mouseTask finishes an item it received while isConnected was
\* false, isConnected is true and peerMacAddress is that item's sender.
C2_BoundAfterItem ==
    [][(taskpc = "dispatch" /\ taskpc' = "receive" /\ deqDisc)
         => (isConnected' /\ peerMacAddress' = receivedItem.mac_addr)]_vars

\* C3: the esp_now_del_peer request of a reset that follows more than
\* CONNECTION_TIMEOUT ms without a received item, while connected, carries the
\* bound peer's address, which is not all-zero.
C3_ResetRemovesBoundPeer ==
    [][(/\ looppc = "del" /\ looppc' = "clear_conn"
        /\ isConnected /\ taskpc = "receive"
        /\ now - seenAt > CONNECTION_TIMEOUT)
         => (radioCall'.op = "del" /\ radioCall'.addr # ZeroMac)]_vars

\* C4: when resetConnection sets isConnected to false, more than
\* CONNECTION_TIMEOUT ms have passed since mouseTask last wrote lastPacketTime.
C4_ResetOnlyOnTimeout ==
    [][(looppc = "clear_conn" /\ looppc' = "clear_mac")
         => now - seenAt > CONNECTION_TIMEOUT]_vars

\* C5: the step of mouseTask that follows xQueueReceive writes millis() to
\* lastPacketTime and nothing else, for every item and in either phase; the
\* receive itself changes no connection state, and no other step of the
\* program writes lastPacketTime.
C5_StampFirstAndOnlyThere ==
    [][/\ (taskpc = "receive" /\ taskpc' # "receive")
            => (taskpc' = "stamp" /\ receivedItem' = Head(queue)
                /\ UNCHANGED <<connVars, lastButtons, peerTable>>)
       /\ (taskpc = "stamp" /\ taskpc' # "stamp")
            => (/\ taskpc' = "check"
                /\ lastPacketTime' = Millis(now)
                /\ UNCHANGED <<isConnected, peerMacAddress, lastButtons,
                               peerTable, hidOut, receivedItem>>)
       /\ (lastPacketTime' # lastPacketTime)
            => (taskpc = "stamp" /\ taskpc' = "check")]_vars

\* C5: a Heartbeat with all-zero payload, received while connected at a later
\* time than the previous item, has just refreshed lastPacketTime.
C5_HeartbeatStamped ==
    /\ taskpc = "check"
    /\ isConnected
    /\ receivedItem.type = PACKET_TYPE_HEARTBEAT
    /\ receivedItem.deltaX = 0 /\ receivedItem.buttons = 0
    /\ now > 0
    /\ lastPacketTime = Millis(now)


\* C6: the items mouseTask receives are the items OnDataRecv pushed
\* successfully, in the same order, none twice and none lost: every item
\* received so far was the oldest pushed and not yet received one, and the
\* queue holds exactly the pushed items still to be received, oldest first.
C6_FifoDelivery ==
    fifoOk /\ queue = expect

\* C6: mouseTask has received the second frame of a burst and the queue has
\* been refilled to its capacity behind it.
C6_ReceivedWhileFull ==
    /\ taskpc = "stamp"
    /\ receivedItem.deltaX = 2
    /\ Len(queue) = QUEUE_LENGTH

\* C7: the queue never holds more than QUEUE_LENGTH items; the callback can
\* always run to completion, also on a full queue; and when it accepts a frame
\* while the queue holds QUEUE_LENGTH items the queue is left as it was.
C7_FullQueueDropsNewest ==
    /\ [](Len(queue) <= QUEUE_LENGTH)
    /\ [](nFrames < MaxBurst => ENABLED BurstRecv)
    /\ [][(/\ nFrames' # nFrames
           /\ rx'.len = PACKET_SIZE
           /\ rx'.type \in {PACKET_TYPE_MOUSE_DATA, PACKET_TYPE_HEARTBEAT}
           /\ Len(queue) = QUEUE_LENGTH)
            => queue' = queue]_vars

\* C7: a well-formed frame has just been delivered to the callback, the queue
\* holds QUEUE_LENGTH items and the frame's item is not among them.
C7_NewestDropped ==
    /\ rx # NoFrame
    /\ rx.len = PACKET_SIZE
    /\ rx.type = PACKET_TYPE_MOUSE_DATA
    /\ Len(queue) = QUEUE_LENGTH
    /\ \A i \in 1..Len(queue) : queue[i].deltaX # rx.deltaX

\* C8: a frame of another length than PACKET_SIZE, or of a type that is neither
\* MOUSE_DATA nor HEARTBEAT, leaves the queue, isConnected, peerMacAddress and
\* lastPacketTime unchanged.
C8_RejectedFrameNoEffect ==
    [][(/\ rx' # NoFrame
        /\ \/ rx'.len # PACKET_SIZE
           \/ rx'.type \notin {PACKET_TYPE_MOUSE_DATA, PACKET_TYPE_HEARTBEAT})
         => UNCHANGED <<queue, isConnected, peerMacAddress, lastPacketTime>>]_vars

\* C8: a MOUSE_DATA frame one byte too long has just been delivered while
\* connected; the queue holds earlier items and not this frame's.
C8_LongFrameRejected ==
    /\ rx # NoFrame
    /\ rx.len = PACKET_SIZE + 1
    /\ rx.type = PACKET_TYPE_MOUSE_DATA
    /\ isConnected
    /\ Len(queue) > 2
    /\ \A i \in 1..Len(queue) : queue[i].deltaX # rx.deltaX

\* Bit index of a button: left, right, middle, back, forward.
ButtonBit(id) ==
    CASE id = "MOUSE_LEFT" -> 0
      [] id = "MOUSE_RIGHT" -> 1
      [] id = "MOUSE_MIDDLE" -> 2
      [] id = "MOUSE_BACKWARD" -> 3
      [] id = "MOUSE_FORWARD" -> 4

IsButtonCall(c) == c.call \in {"press", "release"}
IsMoveCall(c) == c.call = "move"

\* The step of mouseTask that handles a MOUSE_DATA item.
MouseItemHandled ==
    /\ taskpc = "dispatch" /\ taskpc' = "receive"
    /\ receivedItem.type = PACKET_TYPE_MOUSE_DATA

\* C9: for a MOUSE_DATA item the button calls are one per bit 0..4 that
\* differs between the item's buttons and lastButtons, a press if the bit is
\* set in the item and a release otherwise, in ascending bit order; afterwards
\* lastButtons is the item's buttons.
C9_ButtonDiff ==
    [][MouseItemHandled =>
         LET btn == SelectSeq(hidOut', IsButtonCall)
             changed == {i \in 0..4 :
                            Bit(receivedItem.buttons, i) # Bit(lastButtons, i)}
         IN /\ Len(btn) = Cardinality(changed)
            /\ \A k \in 1..Len(btn) :
                  /\ ButtonBit(btn[k].button) \in changed
                  /\ btn[k].call =
                        IF Bit(receivedItem.buttons, ButtonBit(btn[k].button)) = 1
                        THEN "press" ELSE "release"
            /\ \A k \in 1..Len(btn) : \A l \in 1..Len(btn) :
                  k < l => ButtonBit(btn[k].button) < ButtonBit(btn[l].button)
            /\ lastButtons' = receivedItem.buttons]_vars

\* C9: an item with right and middle set has been handled by releasing left
\* and pressing middle, in that order (lastButtons was left and right).
C9_ReleaseThenPress ==
    /\ taskpc = "receive"
    /\ receivedItem.type = PACKET_TYPE_MOUSE_DATA
    /\ receivedItem.buttons = 6
    /\ hidOut = << [call |-> "release", button |-> "MOUSE_LEFT"],
                   [call |-> "press", button |-> "MOUSE_MIDDLE"] >>
    /\ lastButtons = 6

\* C10: for a MOUSE_DATA item with a non-zero deltaX, deltaY or wheel the first
\* HID call is the one move call, carrying the three values as they are; with
\* all three zero there is no move call, and if the buttons also equal
\* lastButtons there is no HID call at all.
C10_MoveFirst ==
    [][MouseItemHandled =>
         LET moving == \/ receivedItem.deltaX # 0
                       \/ receivedItem.deltaY # 0
                       \/ receivedItem.wheel # 0
             moves == SelectSeq(hidOut', IsMoveCall)
         IN /\ moving =>
                  /\ Len(moves) = 1
                  /\ hidOut'[1] = [call |-> "move", x |-> receivedItem.deltaX,
                                   y |-> receivedItem.deltaY,
                                   wheel |-> receivedItem.wheel]
            /\ ~moving => moves = << >>
            /\ (~moving /\ receivedItem.buttons = lastButtons) => hidOut' = << >>]_vars

\* C10: an item moving by (-300, 200) with wheel -1 and a new button has been
\* handled: the move call comes first, then the press.
C10_MoveThenPress ==
    /\ taskpc = "receive"
    /\ Len(hidOut) = 2
    /\ hidOut[1] = [call |-> "move", x |-> 0 - 300, y |-> 200, wheel |-> 0 - 1]
    /\ hidOut[2].call = "press"

\* C11: while mouseTask handles a HEARTBEAT item no HID call is made and
\* lastButtons keeps its value, whatever the item's deltaX, deltaY, wheel and
\* buttons are; the final (dispatch) step changes neither isConnected,
\* peerMacAddress, lastPacketTime nor the peer list, so the item's only effects
\* are the stamp and, when disconnected, the bind before it.
C11_HeartbeatNoHid ==
    [][(/\ taskpc # "receive" /\ taskpc' # taskpc
        /\ receivedItem.type = PACKET_TYPE_HEARTBEAT)
         => (/\ hidOut' = << >>
             /\ lastButtons' = lastButtons
             /\ (isConnected' # isConnected \/ peerMacAddress' # peerMacAddress
                   \/ peerTable' # peerTable)
                  => (deqDisc /\ taskpc \in {"save", "add", "mod", "connect"})
             /\ taskpc = "dispatch"
                  => UNCHANGED <<connVars, peerTable>>)]_vars

\* C11: a HEARTBEAT item carrying deltaX 5 and buttons 3 has been handled
\* while lastButtons was 1: no HID call was made and lastButtons is still 1.
C11_LoadedHeartbeatHandled ==
    /\ taskpc = "receive"
    /\ isConnected
    /\ receivedItem.type = PACKET_TYPE_HEARTBEAT
    /\ receivedItem.deltaX = 5 /\ receivedItem.buttons = 3
    /\ lastButtons = 1
    /\ hidOut = << >>

\* C12: every esp_now_send of a Discovery packet is made while isConnected is
\* false.
C12_SendOnlyDisconnected ==
    radioCall.op = "send" => ~isConnected

\* C12: the Discovery packet has just been sent while isConnected is true and
\* mouseTask has finished the item that bound the peer.
C12_SentWhileConnected ==
    /\ radioCall.op = "send"
    /\ isConnected
    /\ peerMacAddress # ZeroMac
    /\ taskpc = "receive"

\* C13: an iteration of loop() that finds isConnected false goes on to the
\* interval test; once a broadcast has been made, the test leads to a send if
\* at least BROADCAST_INTERVAL ms have passed since the previous send and to
\* none otherwise; a send is one esp_now_send of the Discovery packet (type
\* DISCOVERY, the device name, all numeric fields zero, PACKET_SIZE bytes) to
\* broadcastAddress, made at least BROADCAST_INTERVAL ms after the previous
\* one, and nothing else in the program sends.
C13_BeaconEveryInterval ==
    [][/\ (looppc = "phase" /\ looppc' # "phase" /\ ~isConnected)
            => looppc' = "beacon"
       /\ (looppc = "beacon" /\ looppc' # "beacon" /\ sentAt >= 0)
            => looppc' = IF now - sentAt >= BROADCAST_INTERVAL
                         THEN "mark" ELSE "delay"
       /\ (looppc = "mark" /\ looppc' # "mark") => looppc' = "send"
       /\ (looppc = "send" /\ looppc' # "send")
            => /\ looppc' = "delay"
               /\ radioCall' =
                     [op |-> "send", addr |-> <<255, 255, 255, 255, 255, 255>>,
                      len |-> PACKET_SIZE,
                      packet |-> [type |-> PACKET_TYPE_DISCOVERY,
                                  deviceName |-> MY_DEVICE_NAME, deltaX |-> 0,
                                  deltaY |-> 0, wheel |-> 0, buttons |-> 0]]
               /\ sentAt >= 0 => now - sentAt >= BROADCAST_INTERVAL
       /\ radioCall'.op = "send" => looppc = "send"]_vars

\* C13: loop() has found isConnected false and made no send although the
\* previous send lies a whole period of the clock, and so far more than
\* BROADCAST_INTERVAL ms, back (a connection lasted that long in between).
C13_BeaconSkippedAfterWrap ==
    /\ looppc = "delay" /\ radioCall = NoCall
    /\ ~isConnected
    /\ sentAt >= 0
    /\ now - sentAt >= ClockMod
    /\ now - sentAt < ClockMod + BROADCAST_INTERVAL
    /\ lastBroadcastTime = Millis(sentAt)

\* C14: as long as esp_now_add_peer has succeeded for every unlisted address
\* and esp_now_del_peer for every listed one, the peer list holds at most one
\* address besides broadcastAddress, and none when resetConnection returns.
C14_AtMostOnePeer ==
    /\ [](radioOk => Cardinality(peerTable \ {broadcastAddress}) <= 1)
    /\ [][(looppc = "clear_mac" /\ looppc' = "delay" /\ radioOk')
            => peerTable' = {broadcastAddress}]_vars

\* C14: resetConnection has returned, no peer call ever failed the claim's
\* assumption, and a sender's address is still in the peer list.
C14_PeerLeftAfterReset ==
    /\ looppc = "delay" /\ radioCall = NoCall
    /\ ~isConnected /\ peerMacAddress = ZeroMac
    /\ taskpc = "receive"
    /\ radioOk
    /\ peerTable \cap Senders # {}

\* C15: no step that begins and ends with isConnected true changes
\* peerMacAddress; an item mouseTask finds isConnected true for goes straight
\* to the MOUSE_DATA dispatch, whoever sent it; and esp_now_add_peer and
\* esp_now_mod_peer are called only while isConnected is false.
C15_PeerFixedWhileConnected ==
    [][/\ (isConnected /\ isConnected') => peerMacAddress' = peerMacAddress
       /\ (taskpc = "check" /\ taskpc' # "check" /\ isConnected)
            => (taskpc' = "dispatch" /\ peerTable' = peerTable)
       /\ radioCall'.op \in {"add", "mod"} => ~isConnected]_vars

\* C15: peerMacAddress has just been set to all-zero by resetConnection
\* while isConnected was and is true, mouseTask having finished its item.
C15_PeerZeroedWhileConnected ==
    /\ looppc = "delay" /\ radioCall = NoCall
    /\ isConnected
    /\ peerMacAddress = ZeroMac
    /\ taskpc = "receive" /\ queue = << >>
    /\ receivedItem.mac_addr \in peerTable

\* C16: in a bind esp_now_add_peer is called once, with the item's sender
\* address; esp_now_mod_peer is called, once and with the same address, if
\* and only if the add did not return ESP_OK; whatever the two calls return,
\* the next step sets isConnected with peerMacAddress being the item's sender
\* and goes on to the dispatch; no other step calls add or mod.
C16_BindCallsPeerOnce ==
    [][/\ (taskpc = "add" /\ taskpc' # "add")
            => /\ radioCall'.op = "add"
               /\ radioCall'.addr = receivedItem.mac_addr
               /\ taskpc' = IF radioCall'.status = "OK" THEN "connect" ELSE "mod"
       /\ (taskpc = "mod" /\ taskpc' # "mod")
            => /\ radioCall'.op = "mod"
               /\ radioCall'.addr = receivedItem.mac_addr
               /\ taskpc' = "connect"
       /\ (taskpc = "connect" /\ taskpc' # "connect")
            => /\ taskpc' = "dispatch"
               /\ isConnected'
               /\ peerMacAddress' = receivedItem.mac_addr
       /\ radioCall'.op = "add" => (taskpc = "add" /\ taskpc' # "add")
       /\ radioCall'.op = "mod" => (taskpc = "mod" /\ taskpc' # "mod")
       /\ (taskpc' = "add" /\ taskpc # "add") => taskpc = "info"
       /\ (taskpc' = "mod" /\ taskpc # "mod") => taskpc = "add"]_vars

\* C16: mouseTask has just set isConnected after an add that returned ESP_OK
\* for the item's sender, and peerMacAddress is all-zero.
C16_ConnectedUnbound ==
    /\ taskpc = "dispatch"
    /\ isConnected
    /\ deqDisc
    /\ receivedItem.mac_addr \in peerTable
    /\ peerMacAddress = ZeroMac
    /\ looppc = "delay"

\* C17 as stated: no step of loop() changes isConnected, peerMacAddress or
\* lastPacketTime.
C17_LoopWritesNothing ==
    [][looppc' # looppc
         => UNCHANGED <<isConnected, peerMacAddress, lastPacketTime>>]_vars

\* C17 as amended: no step of loop() changes lastPacketTime; a step of loop()
\* changes isConnected only in resetConnection, to false, and peerMacAddress
\* only in resetConnection, to all-zero; every other change of the three is
\* made by a step of mouseTask, which never sets isConnected to false.
C17_LoopWritesOnlyInReset ==
    [][/\ looppc' # looppc =>
            /\ lastPacketTime' = lastPacketTime
            /\ isConnected' # isConnected
                 => (looppc = "clear_conn" /\ ~isConnected')
            /\ peerMacAddress' # peerMacAddress
                 => (looppc = "clear_mac" /\ peerMacAddress' = ZeroMac)
       /\ (looppc' = looppc /\ connVars' # connVars)
            => (taskpc' # taskpc /\ (isConnected => isConnected'))]_vars

\* C17: resetConnection has just returned at a time when lastPacketTime is
\* not zero: loop() has set isConnected to false and peerMacAddress to
\* all-zero, and lastPacketTime still holds the time of the last item.
C17_ResetDoneByLoop ==
    /\ looppc = "delay" /\ radioCall = NoCall
    /\ ~isConnected
    /\ peerMacAddress = ZeroMac
    /\ taskpc = "receive"
    /\ receivedItem # NoItem
    /\ lastPacketTime # 0
    /\ now - seenAt > CONNECTION_TIMEOUT

\* The buttons whose bit is set in the low five bits of a mask.
MaskButtons(mask) ==
    {id \in {"MOUSE_LEFT", "MOUSE_RIGHT", "MOUSE_MIDDLE", "MOUSE_BACKWARD",
             "MOUSE_FORWARD"} : Bit(mask, ButtonBit(id)) = 1}

\* C18: in every state the buttons pressed and not yet released are those of
\* the low five bits of lastButtons, and no button was ever pressed twice in
\* a row or released without being pressed; no step of loop(), resetConnection
\* included, makes a HID call or changes lastButtons.
C18_HostButtonsMatchMask ==
    /\ [](pressed = MaskButtons(lastButtons) /\ alternOk)
    /\ [][looppc' # looppc
            => UNCHANGED <<hidOut, lastButtons, pressed>>]_vars

\* C18: left was pressed during an earlier connection and is still held; the
\* connection was reset, and mouseTask has bound again on a MOUSE_DATA item
\* with right set, which it is about to compare with the mask from before.
C18_ReboundWithHeldButton ==
    /\ taskpc = "dispatch"
    /\ deqDisc /\ isConnected
    /\ lastButtons = 1
    /\ pressed = {"MOUSE_LEFT"}
    /\ receivedItem.type = PACKET_TYPE_MOUSE_DATA
    /\ receivedItem.buttons = 2

\* C19: lastPacketTime always holds the clock value of its last write; every
\* time isConnected was set, that write had been made at or after the time
\* the binding item was received; the time of the last write never goes
\* back; so wherever loop() has found isConnected true and evaluates the
\* timeout, lastPacketTime is no older than the receipt of the item that
\* caused the bind.
C19_StampedBeforeConnected ==
    /\ [](lastPacketTime = Millis(seenAt) /\ bindFresh)
    /\ [](looppc \in {"timeout", "cmp_last", "cmp_clock"}
            => (isConnected /\ bindFresh))
    /\ [][seenAt' >= seenAt /\ deqAt' >= deqAt]_vars
    /\ [][(taskpc = "connect" /\ taskpc' # "connect")
            => (isConnected' /\ seenAt >= deqAt /\ deqAt = now)]_vars

\* C19: left was pressed during an earlier connection, which was reset; the
\* item in hand was received while disconnected, CONNECTION_TIMEOUT ms or
\* more after boot, and has bound; loop() has found isConnected true and
\* evaluates the timeout while lastPacketTime is the clock value of that
\* item's receipt.
C19_TimeoutOfNewConnection ==
    /\ looppc \in {"cmp_last", "cmp_clock"}
    /\ isConnected
    /\ taskpc = "dispatch" /\ deqDisc
    /\ lastButtons = 1
    /\ deqAt >= CONNECTION_TIMEOUT
    /\ lastPacketTime = Millis(deqAt)

\* C20: before and after the wrap of the millisecond clock, resetConnection
\* sets isConnected to false only when at least CONNECTION_TIMEOUT ms have
\* truly passed since the last write of lastPacketTime, and a comparison made
\* when more than CONNECTION_TIMEOUT ms have truly passed leads to the reset.
C20_TimeoutAcrossWrap ==
    [][/\ (looppc = "clear_conn" /\ looppc' = "clear_mac")
            => now - seenAt >= CONNECTION_TIMEOUT
       /\ (/\ looppc \in {"cmp_last", "cmp_clock"} /\ looppc' # looppc
           /\ now - seenAt > CONNECTION_TIMEOUT)
            => looppc' = "del"]_vars

\* C20: the clock has wrapped, and resetConnection has just set isConnected
\* to false although lastPacketTime was written at this very time.
C20_ResetAfterWrapOnFreshStamp ==
    /\ looppc = "clear_mac"
    /\ ~isConnected
    /\ now >= ClockMod
    /\ seenAt = now
    /\ lastPacketTime = Millis(now)
    /\ taskpc = "receive"

====
